---- MODULE Spec2Model ----
(***************************************************************************)
(* PageRank pipeline, stage 3 (pipeline_pagerank/stage3_pagerank.py):      *)
(* compute_pagerank builds a sparse adjacency matrix from the outgoing     *)
(* links, row-normalises it, and runs damped power iteration with a coarse *)
(* (0.5 %) and a fine (N * 1e-6) convergence threshold.  Around it:        *)
(* build_incoming of stage 2 (stage2_stats.py), whose result main.py hands *)
(* to compute_pagerank, and the reference graph that verify_with_networkx  *)
(* of stage 4 (stage4_validation.py) builds from outgoing.                 *)
(*                                                                         *)
(* float64 values are modelled as exact rationals <<num, den>> in lowest   *)
(* terms with den > 0; <<0, 0>> is NaN and <<1, 0>>, <<-1, 0>> are the     *)
(* infinities a numpy division by zero produces.  Rounding is not          *)
(* modelled: every statement below is about the real-number semantics of   *)
(* the code.                                                               *)
(***************************************************************************)
EXTENDS Integers, Sequences, FiniteSets, TLC

VARIABLES
    outgoing,        \* argument: dict page_id -> list of targets, as the
                     \* sequence of <<page_id, targets>> in insertion order;
                     \* a page id is a decimal numeral (a sequence of digits)
    incoming,        \* argument: the dict build_incoming made of outgoing,
                     \* page_id -> list of sources, in the same form
    damping,         \* argument: damping factor d
    max_iterations,  \* argument: cap on the number of loop passes
    pc,              \* position in compute_pagerank
    n, pages, A, is_dangling, teleport, fine_tol,
    x, x_prev, iteration, diff, change_pct, hw_converged_at,
    broke,           \* TRUE iff the for loop was left through `break`
    error,           \* name of the exception that ended the call, if any
    pr,              \* the returned dict page_id -> score
    top5,            \* the list of (page_id, score) shown as the top 5
    G                \* verify_with_networkx: the nx.DiGraph, as its node
                     \* set and its edge set

vars == <<outgoing, incoming, G, damping, max_iterations, pc, n, pages, A, is_dangling,
          teleport, fine_tol, x, x_prev, iteration, diff, change_pct,
          hw_converged_at, broke, error, pr, top5>>

-----------------------------------------------------------------------------
(* Bounds of the model *)

MaxPages == 3        \* at most this many pages (keys of outgoing)
MaxLinks == 2        \* at most this many link occurrences in all lists
MaxIterCap == 2      \* max_iterations ranges over 0..MaxIterCap
MaxLeaves == 4       \* a star graph has at most this many leaves
MaxRedirected == 60  \* at most this many redirected pages in a large cycle
MaxShuffled == 2     \* at most this many pages in a dict tried in every order

-----------------------------------------------------------------------------
(* float64 arithmetic as exact rationals *)

NaN == <<0, 0>>

IsFinite(a) == a[2] # 0

AbsInt(k) == IF k < 0 THEN -k ELSE k

RECURSIVE GCD(_, _)
GCD(a, b) == IF b = 0 THEN a ELSE GCD(b, a % b)

\* the float with value num / den, den > 0
Float(num, den) ==
    LET g == GCD(AbsInt(num), den)
    IN  <<num \div g, den \div g>>

FromInt(k) == <<k, 1>>

Zero == FromInt(0)
One == FromInt(1)

FNeg(a) == <<-a[1], a[2]>>

FAdd(a, b) ==
    IF ~IsFinite(a) \/ ~IsFinite(b) THEN NaN
    ELSE LET g == GCD(a[2], b[2])
             l == (a[2] \div g) * b[2]
         IN  Float(a[1] * (l \div a[2]) + b[1] * (l \div b[2]), l)

FSub(a, b) == FAdd(a, FNeg(b))

FMul(a, b) ==
    IF ~IsFinite(a) \/ ~IsFinite(b) THEN NaN
    ELSE LET g1 == GCD(AbsInt(a[1]), b[2])
             g2 == GCD(AbsInt(b[1]), a[2])
         IN  IF a[1] = 0 \/ b[1] = 0 THEN Zero
             ELSE <<(a[1] \div g1) * (b[1] \div g2),
                    (a[2] \div g2) * (b[2] \div g1)>>

\* numpy division: x / 0 is +-inf (0 / 0 is nan), never an exception
FDiv(a, b) ==
    IF ~IsFinite(a) \/ ~IsFinite(b) THEN NaN
    ELSE IF b[1] = 0
         THEN (IF a[1] = 0 THEN NaN ELSE IF a[1] > 0 THEN <<1, 0>> ELSE <<-1, 0>>)
         ELSE IF b[1] > 0 THEN FMul(a, <<b[2], b[1]>>)
              ELSE FMul(a, <<-b[2], -b[1]>>)

FAbs(a) == <<AbsInt(a[1]), a[2]>>

\* a < b for finite a, b, by comparing the continued-fraction expansions
\* (no cross product, so the comparison cannot overflow)
RECURSIVE FiniteLess(_, _)
FiniteLess(a, b) ==
    LET qa == a[1] \div a[2]
        qb == b[1] \div b[2]
        ra == a[1] % a[2]
        rb == b[1] % b[2]
    IN  IF qa # qb THEN qa < qb
        ELSE IF rb = 0 THEN FALSE
        ELSE IF ra = 0 THEN TRUE
        ELSE FiniteLess(<<b[2], rb>>, <<a[2], ra>>)

\* IEEE comparison: anything compared with NaN is false
FLess(a, b) == IsFinite(a) /\ IsFinite(b) /\ FiniteLess(a, b)

FLeq(a, b) == IsFinite(a) /\ IsFinite(b) /\ ~FiniteLess(b, a)

\* sum of v[i] over the indices 0 .. k-1
RECURSIVE SumTo(_, _)
SumTo(v, k) == IF k = 0 THEN Zero ELSE FAdd(SumTo(v, k - 1), v[k - 1])

\* ndarray.sum() of a vector indexed 0 .. Size-1
Sum(v) == SumTo(v, Cardinality(DOMAIN v))

-----------------------------------------------------------------------------
(* Inputs: what stage 1 hands to compute_pagerank *)

RECURSIVE SeqsOfLen(_, _)
SeqsOfLen(S, k) ==
    IF k = 0 THEN {<<>>}
    ELSE {Append(s, e) : s \in SeqsOfLen(S, k - 1), e \in S}

\* the lists of at most m link targets drawn from T (parse_html's results)
LinkLists(T, m) == UNION {SeqsOfLen(T, k) : k \in 0..m}

\* str(m) for m >= 0: the decimal numeral of m, as its sequence of digits.
\* Page ids are such numerals: the file name without ".html", and the
\* (\d+) of a link
RECURSIVE str(_)
str(m) == IF m < 10 THEN <<m>> ELSE Append(str(m \div 10), m % 10)

\* the value of the first k digits of the numeral s
RECURSIVE IntOfPrefix(_, _)
IntOfPrefix(s, k) == IF k = 0 THEN 0 ELSE 10 * IntOfPrefix(s, k - 1) + s[k]

\* int(s) for a numeral s
int(s) == IntOfPrefix(s, Len(s))

\* a < b for str: character by character, a proper prefix first
RECURSIVE StrLess(_, _)
StrLess(a, b) ==
    IF b = <<>> THEN FALSE
    ELSE IF a = <<>> THEN TRUE
    ELSE IF Head(a) # Head(b) THEN Head(a) < Head(b)
    ELSE StrLess(Tail(a), Tail(b))

\* the ids of the first k pages of the collection: "8", "9", "10", ...
PageIds(k) == {str(m) : m \in 8..(k + 7)}

\* sorted(f for f in os.listdir(directory) ...): the ids of S in the string
\* order of their file names, which is the insertion order of the dict
FileOrder(S) ==
    [i \in 1..Cardinality(S) |->
        CHOOSE p \in S : Cardinality({q \in S : StrLess(q, p)}) = i - 1]

\* the dicts whose keys are inserted in the order keys and whose lists hold
\* at most budget links in all
RECURSIVE OutgoingDicts(_, _, _)
OutgoingDicts(keys, budget, T) ==
    IF keys = <<>> THEN {<<>>}
    ELSE UNION {{Append(g, <<keys[Len(keys)], t>>)
                    : g \in OutgoingDicts(SubSeq(keys, 1, Len(keys) - 1),
                                          budget - Len(t), T)}
                : t \in LinkLists(T, budget)}

\* the first k pages were read; the (k+1)-th id names a page that was not
Inputs ==
    UNION {OutgoingDicts(FileOrder(PageIds(k)), MaxLinks, PageIds(k + 1))
              : k \in 0..MaxPages}

\* the enumerations of the finite set S: with progress=True the downloads
\* are inserted as they complete, in any order
RECURSIVE Orders(_)
Orders(S) ==
    IF S = {} THEN {<<>>}
    ELSE UNION {{Append(o, p) : o \in Orders(S \ {p})} : p \in S}

\* the dict of a star graph: the page hub lists nothing, every other page
\* of keys lists hub and nothing else
Star(keys, hub) ==
    [k \in 1..Len(keys) |-> <<keys[k], IF keys[k] = hub THEN <<>> ELSE <<hub>>>>]

\* damping=0.85, the default
DefaultDamping == Float(85, 100)

\* the damping factors tried inside the open interval (0, 1): the default
\* 0.85 and two small ones, with which the loop meets its thresholds within
\* the first passes
ValidDampings == {<<17, 20>>, <<1, 50>>, <<1, 1000>>}

\* damping factors outside the open interval (0, 1)
InvalidDampings == {<<0, 1>>, <<1, 1>>, <<3, 2>>}

ValidDamping(d) == FLess(Zero, d) /\ FLess(d, One)

\* a local that no statement has bound yet
Unbound == <<>>

\* Python's None as the value of hw_converged_at: no 1-based pass number
None == 0

-----------------------------------------------------------------------------
(* Step 1: indices and the sparse adjacency matrix *)

KeySet(out) == {out[k][1] : k \in 1..Len(out)}

\* (mutation of TargetsOf: outgoing[p][:1], the first link of the list alone)
FirstTargetOf(out, p) ==
    LET targets == out[CHOOSE k \in 1..Len(out) : out[k][1] = p][2]
    IN  IF targets = <<>> THEN <<>> ELSE <<Head(targets)>>

\* outgoing[p]
TargetsOf(out, p) == out[CHOOSE k \in 1..Len(out) : out[k][1] = p][2]

\* (mutation of SortedPages: sorted(outgoing.keys()) without key=int, the
\* ids in string order)
SortedAsStrings(out) ==
    [i \in 0..(Len(out) - 1) |->
        CHOOSE p \in KeySet(out) :
            Cardinality({q \in KeySet(out) : StrLess(q, p)}) = i]

\* the sorted list with p put in: after every element whose key is not
\* larger (the sort is stable)
RECURSIVE Inserted(_, _)
Inserted(list, p) ==
    IF list = <<>> THEN <<p>>
    ELSE IF int(p) < int(Head(list)) THEN <<p>> \o list
    ELSE <<Head(list)>> \o Inserted(Tail(list), p)

\* sorted(list, key=int)
RECURSIVE sorted(_)
sorted(list) ==
    IF list = <<>> THEN <<>>
    ELSE Inserted(sorted(SubSeq(list, 1, Len(list) - 1)), list[Len(list)])

\* sorted(outgoing.keys(), key=int), indexed 0 .. n-1
SortedPages(out) ==
    LET ascending == sorted([k \in 1..Len(out) |-> out[k][1]])
    IN  [i \in 0..(Len(out) - 1) |-> ascending[i + 1]]

\* {page: i for i, page in enumerate(pages)}
PageToIdx(pgs) == [p \in {pgs[i] : i \in DOMAIN pgs} |-> CHOOSE i \in DOMAIN pgs : pgs[i] = p]

\* how often target t is visited by `for target in <iterable>`
RECURSIVE Occurrences(_, _)
Occurrences(list, t) ==
    IF list = <<>> THEN 0
    ELSE (IF Head(list) = t THEN 1 ELSE 0) + Occurrences(Tail(list), t)

\* (mutation of Visits: `for target in targets`, without set())
VisitsEach(targets, t) == Occurrences(targets, t)

\* visits of t by `for target in set(targets)`: once if present
Visits(targets, t) == IF Occurrences(targets, t) > 0 THEN 1 ELSE 0

\* (mutation of Adjacency: a link of a page to itself is skipped,
\* `if target in page_to_idx and target != source`)
AdjacencyNoSelfLoops(out) ==
    LET pgs == SortedPages(out)
    IN  [i \in DOMAIN pgs |->
            [j \in DOMAIN pgs |->
                IF i = j THEN Zero
                ELSE FromInt(Visits(TargetsOf(out, pgs[i]), pgs[j]))]]

\* (mutation of Adjacency: every listed occurrence of a target is appended,
\* and csr_matrix sums the duplicate pairs)
AdjacencyCounted(out) ==
    LET pgs == SortedPages(out)
    IN  [i \in DOMAIN pgs |->
            [j \in DOMAIN pgs |-> FromInt(Occurrences(TargetsOf(out, pgs[i]), pgs[j]))]]

\* csr_matrix((data, (rows, cols)), shape=(n, n)) with data all ones:
\* entry (i, j) is the number of appended (i, j) pairs; only targets that
\* are keys of page_to_idx are appended
Adjacency(out) ==
    LET pgs == SortedPages(out)
    IN  [i \in DOMAIN pgs |->
            [j \in DOMAIN pgs |-> FromInt(Visits(TargetsOf(out, pgs[i]), pgs[j]))]]

-----------------------------------------------------------------------------
(* Step 2: row normalisation *)

\* np.array(A.sum(axis=1)).flatten()
RowSums(M) == [i \in DOMAIN M |-> Sum(M[i])]

\* np.where(out_degree == 0)[0]
Dangling(M) == {i \in DOMAIN M : RowSums(M)[i] = Zero}

\* (mutation of Patched: the zero out-degrees are left as they are)
Unpatched(deg) == deg

\* out_degree[out_degree == 0] = 1.0
Patched(deg) == [i \in DOMAIN deg |-> IF deg[i] = Zero THEN One ELSE deg[i]]

\* D_inv @ A with D_inv = diags(1.0 / out_degree)
Normalized(M) ==
    LET inv == [i \in DOMAIN M |-> FDiv(One, Patched(RowSums(M))[i])]
    IN  [i \in DOMAIN M |-> [j \in DOMAIN M |-> FMul(inv[i], M[i][j])]]

-----------------------------------------------------------------------------
(* Step 3: initial rank vector and teleport vector *)

\* np.full(k, value, dtype=np.float64)
Full(k, value) == [i \in 0..(k - 1) |-> value]

\* (mutation of RaisesZeroDivision: the division is guarded)
NeverRaises(k) == FALSE

\* 1.0 / n on Python floats raises ZeroDivisionError for n = 0
RaisesZeroDivision(k) == k = 0

\* (mutation of Uniform: np.ones(n), every page starts with rank 1)
Ones(k) == Full(k, One)

\* (mutation of Uniform: all rank starts on the page with index 0)
StartAtFirstPage(k) == [i \in 0..(k - 1) |-> IF i = 0 THEN One ELSE Zero]

\* (mutation of Uniform: the start vector 1 / (n + 1))
UniformSkewed(k) == Full(k, FDiv(One, FromInt(k + 1)))

\* x = np.full(n, 1.0 / n)
Uniform(k) == Full(k, FDiv(One, FromInt(k)))

\* teleport = np.full(n, (1.0 - damping) / n)
Teleport(k, d) == Full(k, FDiv(FSub(One, d), FromInt(k)))

\* hw_tol = 0.005
hw_tol == Float(5, 1000)

\* (mutation of FineTol: scaled by one less than the number of pages)
FineTolBelow(k) == FMul(FromInt(k - 1), <<1, 1000000>>)

\* fine_tol = n * 1.0e-6
FineTol(k) == FMul(FromInt(k), <<1, 1000000>>)

-----------------------------------------------------------------------------
(* Step 4: one pass of the power-iteration loop *)

\* (mutation of DanglingSum: the dangling mass of the uniform start vector,
\* taken once instead of from the current iterate)
DanglingSumSnapshot(v, dang) ==
    Sum([i \in DOMAIN v |-> IF i \in dang THEN FDiv(One, FromInt(Cardinality(DOMAIN v))) ELSE Zero])

\* (mutation of DanglingSum: the rank of the dangling pages is dropped)
DanglingSumLost(v, dang) == Zero

\* x[is_dangling].sum()
DanglingSum(v, dang) == Sum([i \in DOMAIN v |-> IF i \in dang THEN v[i] ELSE Zero])

\* (mutation of VecMat: A @ x, the product from the right)
MatVec(v, M) == [j \in DOMAIN v |-> Sum([i \in DOMAIN v |-> FMul(M[j][i], v[i])])]

\* (x @ A)[j]
VecMat(v, M) == [j \in DOMAIN v |-> Sum([i \in DOMAIN v |-> FMul(v[i], M[i][j])])]

\* (mutation of Damped: the teleport term is left out)
DampedNoTeleport(v, M, dang, d, k, tele) ==
    LET share == FDiv(DanglingSum(v, dang), FromInt(k))
        xA == VecMat(v, M)
    IN  [j \in DOMAIN v |-> FMul(d, FAdd(xA[j], share))]

\* damping * (x @ A + dangling_sum / n) + teleport
Damped(v, M, dang, d, k, tele) ==
    LET share == FDiv(DanglingSum(v, dang), FromInt(k))
        xA == VecMat(v, M)
    IN  [j \in DOMAIN v |-> FAdd(FMul(d, FAdd(xA[j], share)), tele[j])]

\* (mutation of L1Normalized: x /= x.max(), the largest component becomes 1)
MaxNormalized(v) ==
    LET top == CHOOSE a \in {v[j] : j \in DOMAIN v} :
                   \A b \in {v[j] : j \in DOMAIN v} : FLeq(b, a)
    IN  [j \in DOMAIN v |-> FDiv(v[j], top)]

\* x /= x.sum()
L1Normalized(v) == LET s == Sum(v) IN [j \in DOMAIN v |-> FDiv(v[j], s)]

\* the new iterate
NextIterate(v, M, dang, d, k, tele) == L1Normalized(Damped(v, M, dang, d, k, tele))

\* (mutation of L1Diff: np.abs(x - x_prev != 0).sum(), the number of
\* components that changed)
ChangedCount(v, w) == FromInt(Cardinality({j \in DOMAIN v : v[j] # w[j]}))

\* np.abs(x - x_prev).sum()
L1Diff(v, w) == Sum([j \in DOMAIN v |-> FAbs(FSub(v[j], w[j]))])

\* (mutation of CoarseMet: the `is None` guard is dropped)
CoarseMetAgain(recorded, change) == FLess(change, hw_tol)

\* the coarse test: hw_converged_at is None and change_pct < hw_tol
CoarseMet(recorded, change) == recorded = None /\ FLess(change, hw_tol)

\* (mutation of FineMet: the loop stops on the coarse tolerance)
FineMetCoarse(delta, tol) == FLess(delta, hw_tol)

\* the fine test: diff < fine_tol
FineMet(delta, tol) == FLess(delta, tol)

-----------------------------------------------------------------------------
(* Stage 2: build_incoming *)

\* incoming[t] once the first k items of outgoing have been looped over:
\* the inner loop appends the source once for every occurrence of t in
\* its list
RECURSIVE SourcesOf(_, _, _)
SourcesOf(out, k, t) ==
    IF k = 0 THEN <<>>
    ELSE SourcesOf(out, k - 1, t) \o [m \in 1..Occurrences(out[k][2], t) |-> out[k][1]]

\* (mutation of build_incoming: `for target in set(targets)`, a source is
\* appended once however often it lists the target)
build_incoming_distinct(out) ==
    [k \in 1..Len(out) |->
        <<out[k][1],
          SelectSeq([m \in 1..Len(out) |-> out[m][1]],
                    LAMBDA s : Occurrences(TargetsOf(out, s), out[k][1]) > 0)>>]

\* build_incoming(outgoing): a key with an empty list for every key of
\* outgoing, in its order (line 26), then the appends of lines 28-31; a
\* target that is not a key is skipped
build_incoming(out) ==
    [k \in 1..Len(out) |-> <<out[k][1], SourcesOf(out, Len(out), out[k][1])>>]

-----------------------------------------------------------------------------
(* Stage 4: the reference graph of verify_with_networkx *)

\* the (source, target) pairs handed to G.add_edge: the links whose target
\* is a key of outgoing
AddedEdges(out) ==
    UNION {{<<out[k][1], out[k][2][m]>> :
                m \in {m \in DOMAIN out[k][2] : out[k][2][m] \in KeySet(out)}}
              : k \in 1..Len(out)}

\* nx.DiGraph() after the add_edge calls: add_edge adds the two ends of an
\* edge to the nodes if they are not there, and an edge added again is
\* the same edge
DiGraph(edges) ==
    [nodes |-> {e[1] : e \in edges} \cup {e[2] : e \in edges}, edges |-> edges]

-----------------------------------------------------------------------------
(* compute_pagerank as a state machine *)

\* the call compute_pagerank(outgoing, incoming, damping, max_iterations)
\* with a dict of Dicts, a damping factor of D and a cap of caps; incoming is
\* not read
CalledWith(Dicts, D, caps) ==
    /\ outgoing \in Dicts
    /\ incoming = build_incoming(outgoing)
    /\ G = Unbound
    /\ damping \in D
    /\ max_iterations \in caps
    /\ pc = "called"
    /\ n = Unbound /\ pages = Unbound /\ A = Unbound /\ is_dangling = Unbound
    /\ teleport = Unbound /\ fine_tol = Unbound
    /\ x = Unbound /\ x_prev = Unbound /\ iteration = Unbound
    /\ diff = Unbound /\ change_pct = Unbound /\ hw_converged_at = Unbound
    /\ broke = FALSE
    /\ error = Unbound
    /\ pr = Unbound /\ top5 = Unbound

\* the calls on the dicts read from a directory
Called(D) == CalledWith(Inputs, D, 0..MaxIterCap)

Init == Called(ValidDampings)

InitInvalidDamping == Called(InvalidDampings)

\* (mutation of Build: a damping factor outside (0, 1) is rejected first)
BuildValidated ==
    /\ pc = "called"
    /\ IF ValidDamping(damping)
       THEN /\ ~RaisesZeroDivision(Len(outgoing))
            /\ n' = Len(outgoing)
            /\ pages' = SortedPages(outgoing)
            /\ A' = Normalized(Adjacency(outgoing))
            /\ is_dangling' = Dangling(Adjacency(outgoing))
            /\ x' = Uniform(Len(outgoing))
            /\ teleport' = Teleport(Len(outgoing), damping)
            /\ fine_tol' = FineTol(Len(outgoing))
            /\ hw_converged_at' = None
            /\ iteration' = 0
            /\ pc' = "loop"
            /\ UNCHANGED error
       ELSE /\ error' = "InvalidDamping"
            /\ pc' = "raised"
            /\ UNCHANGED <<n, pages, A, is_dangling, x, teleport, fine_tol,
                           hw_converged_at, iteration>>
    /\ UNCHANGED <<outgoing, incoming, G, damping, max_iterations,
                   x_prev, diff, change_pct,
                   broke, pr, top5>>

\* lines 81-151: everything before the for loop, for a non-empty dict
Build ==
    /\ pc = "called"
    /\ ~RaisesZeroDivision(Len(outgoing))
    /\ n' = Len(outgoing)
    /\ pages' = SortedPages(outgoing)
    /\ A' = Normalized(Adjacency(outgoing))
    /\ is_dangling' = Dangling(Adjacency(outgoing))
    /\ x' = Uniform(Len(outgoing))
    /\ teleport' = Teleport(Len(outgoing), damping)
    /\ fine_tol' = FineTol(Len(outgoing))
    /\ hw_converged_at' = None
    /\ iteration' = 0
    /\ pc' = "loop"
    /\ UNCHANGED <<outgoing, incoming, G, damping, max_iterations,
                   x_prev, diff, change_pct,
                   broke, error, pr, top5>>

\* lines 81-125 for the empty dict: the matrix steps run on 0 x 0 arrays and
\* `1.0 / n` raises
BuildRaises ==
    /\ pc = "called"
    /\ RaisesZeroDivision(Len(outgoing))
    /\ n' = Len(outgoing)
    /\ pages' = SortedPages(outgoing)
    /\ A' = Normalized(Adjacency(outgoing))
    /\ is_dangling' = Dangling(Adjacency(outgoing))
    /\ error' = "ZeroDivisionError"
    /\ pc' = "raised"
    /\ UNCHANGED <<outgoing, incoming, G, damping, max_iterations,
                   teleport, fine_tol, x,
                   x_prev, iteration, diff, change_pct, hw_converged_at, broke, pr, top5>>

\* (mutation of Iterate: the damping factor is multiplied into the matrix in
\* place, A *= damping, instead of into the product)
IterateScalingOperator ==
    /\ pc = "loop"
    /\ iteration < max_iterations
    /\ x_prev' = x
    /\ A' = [i \in DOMAIN A |-> [j \in DOMAIN A |-> FMul(damping, A[i][j])]]
    /\ x' = NextIterate(x, A', is_dangling, One, n, teleport)
    /\ diff' = L1Diff(x', x_prev')
    /\ change_pct' = FDiv(diff', Sum(x_prev'))
    /\ hw_converged_at' =
          IF CoarseMet(hw_converged_at, change_pct') THEN iteration + 1
          ELSE hw_converged_at
    /\ broke' = FineMet(diff', fine_tol)
    /\ pc' = IF FineMet(diff', fine_tol) THEN "after_loop" ELSE "loop"
    /\ iteration' = iteration + 1
    /\ UNCHANGED <<outgoing, incoming, G, damping, max_iterations,
                   n, pages, is_dangling,
                   teleport, fine_tol, error, pr, top5>>

\* lines 154-176: one pass of the loop body
Iterate ==
    /\ pc = "loop"
    /\ iteration < max_iterations
    /\ x_prev' = x
    /\ x' = NextIterate(x, A, is_dangling, damping, n, teleport)
    /\ diff' = L1Diff(x', x_prev')
    /\ change_pct' = FDiv(diff', Sum(x_prev'))
    /\ hw_converged_at' =
          IF CoarseMet(hw_converged_at, change_pct') THEN iteration + 1
          ELSE hw_converged_at
    /\ broke' = FineMet(diff', fine_tol)
    /\ pc' = IF FineMet(diff', fine_tol) THEN "after_loop" ELSE "loop"
    /\ iteration' = iteration + 1
    /\ UNCHANGED <<outgoing, incoming, G, damping, max_iterations,
                   n, pages, A, is_dangling,
                   teleport, fine_tol, error, pr, top5>>

\* (mutation of Exhaust: the exhausted range does not end the loop)
ExhaustStuck ==
    /\ pc = "loop"
    /\ iteration > max_iterations
    /\ pc' = "after_loop"
    /\ UNCHANGED <<outgoing, incoming, G, damping, max_iterations,
                   n, pages, A, is_dangling,
                   teleport, fine_tol, x, x_prev, iteration, diff, change_pct,
                   hw_converged_at, broke, error, pr, top5>>

\* line 154: range(max_iterations) is exhausted, the loop ends without break
Exhaust ==
    /\ pc = "loop"
    /\ iteration >= max_iterations
    /\ pc' = "after_loop"
    /\ UNCHANGED <<outgoing, incoming, G, damping, max_iterations,
                   n, pages, A, is_dangling,
                   teleport, fine_tol, x, x_prev, iteration, diff, change_pct,
                   hw_converged_at, broke, error, pr, top5>>

\* line 181 reads diff and change_pct, which no pass of the loop has bound
ReadsUnboundDiff(delta) == delta = Unbound

\* (mutation of ScoresByPage: every page gets the score at index 0)
ScoresOfFirst(pgs, v) == [p \in {pgs[i] : i \in DOMAIN pgs} |-> v[0]]

\* (mutation of ScoresByPage: the scores are read in reverse index order)
ScoresReversed(pgs, v) ==
    [p \in {pgs[i] : i \in DOMAIN pgs} |->
        v[Cardinality(DOMAIN pgs) - 1 - PageToIdx(pgs)[p]]]

\* pr = {pages[i]: float(x[i]) for i in range(n)}
ScoresByPage(pgs, v) ==
    [p \in {pgs[i] : i \in DOMAIN pgs} |-> v[PageToIdx(pgs)[p]]]

\* pr.items(): the (page, score) pairs in insertion order, which is the
\* order of pages
Items(pgs, scores) ==
    [k \in 1..Cardinality(DOMAIN pgs) |-> <<pgs[k - 1], scores[pgs[k - 1]]>>]

\* (mutation of InsertedByScore: an item goes before the items of equal
\* score)
RECURSIVE InsertedBeforeTies(_, _)
InsertedBeforeTies(list, item) ==
    IF list = <<>> THEN <<item>>
    ELSE IF FLeq(Head(list)[2], item[2]) THEN <<item>> \o list
    ELSE <<Head(list)>> \o InsertedBeforeTies(Tail(list), item)

\* the list sorted by descending score with item put in: after every item
\* whose score is not smaller (sorted(..., reverse=True) is stable)
RECURSIVE InsertedByScore(_, _)
InsertedByScore(list, item) ==
    IF list = <<>> THEN <<item>>
    ELSE IF FLess(Head(list)[2], item[2]) THEN <<item>> \o list
    ELSE <<Head(list)>> \o InsertedByScore(Tail(list), item)

\* sorted(items, key=lambda item: item[1], reverse=True)
RECURSIVE SortedByScore(_)
SortedByScore(items) ==
    IF items = <<>> THEN <<>>
    ELSE InsertedByScore(SortedByScore(SubSeq(items, 1, Len(items) - 1)),
                         items[Len(items)])

\* sorted(pr.items(), key=lambda item: item[1], reverse=True)[:k]
Top(items, k) ==
    LET ranked == SortedByScore([i \in DOMAIN items |-> items[i]])
    IN  SubSeq(ranked, 1, IF Len(ranked) < k THEN Len(ranked) ELSE k)

\* lines 178-193: the final report and the returned dict
Return ==
    /\ pc = "after_loop"
    /\ ~ReadsUnboundDiff(diff)
    /\ pr' = ScoresByPage(pages, x)
    /\ top5' = Top(Items(pages, pr'), 5)
    /\ pc' = "returned"
    /\ UNCHANGED <<outgoing, incoming, G, damping, max_iterations,
                   n, pages, A, is_dangling,
                   teleport, fine_tol, x, x_prev, iteration, diff, change_pct,
                   hw_converged_at, broke, error>>

\* lines 178-181 when the loop body never ran
ReturnRaises ==
    /\ pc = "after_loop"
    /\ ReadsUnboundDiff(diff)
    /\ error' = "NameError"
    /\ pc' = "raised"
    /\ UNCHANGED <<outgoing, incoming, G, damping, max_iterations,
                   n, pages, A, is_dangling,
                   teleport, fine_tol, x, x_prev, iteration, diff, change_pct,
                   hw_converged_at, broke, pr, top5>>

Next == Build \/ BuildRaises \/ Iterate \/ Exhaust \/ Return \/ ReturnRaises

Spec == Init /\ [][Next]_vars

\* the calls on the star graphs with 1..MaxLeaves leaves, any page the hub
InitStar ==
    \E leaves \in 1..MaxLeaves : \E hub \in PageIds(leaves + 1) :
        CalledWith({Star(FileOrder(PageIds(leaves + 1)), hub)},
                   ValidDampings, 0..MaxIterCap)

\* the dict is not empty, so lines 81-125 do not raise
NextStar == Build \/ Iterate \/ Exhaust \/ Return \/ ReturnRaises

SpecStar == InitStar /\ [][NextStar]_vars

\* numbers of pages around 5000, where n * 1.0e-6 passes 0.005, and the
\* 10000 pages of the assignment
LargePageCounts == {4999, 5000, 5001, 10000}

\* line 165 at the first pass on the cycle of k pages (each page links to
\* the next one) in which r pages link to the page with index 0 instead:
\* x is uniform, that page gains d / k from each of the r pages and the r
\* pages they no longer link to lose d / k each
RedirectedCycleDiff(k, r, d) == FMul(FromInt(2 * r), FDiv(d, FromInt(k)))

\* the call on such a cycle has reached the loop; the dict, the matrix and
\* the vectors of a graph of this size are not represented
InitLargeGraph ==
    /\ n \in LargePageCounts
    /\ damping \in ValidDampings
    /\ max_iterations = 1
    /\ pc = "loop"
    /\ fine_tol = FineTol(n)
    /\ hw_converged_at = None
    /\ iteration = 0
    /\ broke = FALSE
    /\ outgoing = Unbound /\ incoming = Unbound /\ G = Unbound
    /\ pages = Unbound /\ A = Unbound
    /\ is_dangling = Unbound /\ teleport = Unbound
    /\ x = Unbound /\ x_prev = Unbound
    /\ diff = Unbound /\ change_pct = Unbound
    /\ error = Unbound /\ pr = Unbound /\ top5 = Unbound

\* lines 154-176, the first pass on such a cycle: x_prev sums to 1
IterateLargeGraph ==
    /\ pc = "loop"
    /\ iteration < max_iterations
    /\ \E r \in 0..MaxRedirected : diff' = RedirectedCycleDiff(n, r, damping)
    /\ change_pct' = FDiv(diff', One)
    /\ hw_converged_at' =
          IF CoarseMet(hw_converged_at, change_pct') THEN iteration + 1
          ELSE hw_converged_at
    /\ broke' = FineMet(diff', fine_tol)
    /\ pc' = IF FineMet(diff', fine_tol) THEN "after_loop" ELSE "loop"
    /\ iteration' = iteration + 1
    /\ UNCHANGED <<outgoing, incoming, G, damping, max_iterations,
                   n, pages, A, is_dangling,
                   teleport, fine_tol, x, x_prev, error, pr, top5>>

NextLargeGraph == IterateLargeGraph \/ Exhaust

SpecLargeGraph == InitLargeGraph /\ [][NextLargeGraph]_vars

\* the same calls with a damping factor outside (0, 1)
SpecInvalidDamping == InitInvalidDamping /\ [][Next]_vars

\* the calls with the default damping factor
InitDefaultDamping == Called({DefaultDamping})

SpecDefaultDamping == InitDefaultDamping /\ [][Next]_vars

\* steps 1-3 alone (lines 81-151), on dicts with any insertion order
InitBuild ==
    \E k \in 0..MaxPages : \E keys \in Orders(PageIds(k)) :
        CalledWith(OutgoingDicts(keys, MaxLinks, PageIds(k + 1)),
                   {DefaultDamping}, {MaxIterCap})

NextBuild == Build \/ BuildRaises

SpecBuild == InitBuild /\ [][NextBuild]_vars

\* the whole call on small dicts with any insertion order of the sources
\* and any order of the targets in every list; the cap is positive, so
\* that a non-empty graph always returns its ranks
InitAnyOrder ==
    \E k \in 0..MaxShuffled : \E keys \in Orders(PageIds(k)) :
        CalledWith(OutgoingDicts(keys, MaxLinks, PageIds(k + 1)),
                   ValidDampings, {MaxIterCap})

NextAnyOrder == Build \/ BuildRaises \/ Iterate \/ Exhaust \/ Return

SpecAnyOrder == InitAnyOrder /\ [][NextAnyOrder]_vars

-----------------------------------------------------------------------------
(* build_incoming and verify_with_networkx as state machines *)

\* the call build_incoming(outgoing) on a dict with any insertion order
InitIncoming ==
    /\ \E k \in 0..MaxPages : \E keys \in Orders(PageIds(k)) :
          outgoing \in OutgoingDicts(keys, MaxLinks, PageIds(k + 1))
    /\ pc = "build_incoming"
    /\ incoming = Unbound /\ G = Unbound
    /\ damping = Unbound /\ max_iterations = Unbound
    /\ n = Unbound /\ pages = Unbound /\ A = Unbound /\ is_dangling = Unbound
    /\ teleport = Unbound /\ fine_tol = Unbound
    /\ x = Unbound /\ x_prev = Unbound /\ iteration = Unbound
    /\ diff = Unbound /\ change_pct = Unbound /\ hw_converged_at = Unbound
    /\ broke = FALSE
    /\ error = Unbound
    /\ pr = Unbound /\ top5 = Unbound

\* stage2_stats.py lines 26-32
BuildIncoming ==
    /\ pc = "build_incoming"
    /\ incoming' = build_incoming(outgoing)
    /\ pc' = "incoming_returned"
    /\ UNCHANGED <<outgoing, G, damping, max_iterations,
                   n, pages, A, is_dangling, teleport, fine_tol, x, x_prev,
                   iteration, diff, change_pct, hw_converged_at, broke, error,
                   pr, top5>>

NextIncoming == BuildIncoming

SpecIncoming == InitIncoming /\ [][NextIncoming]_vars

\* stage4_validation.py lines 134-139: verify_with_networkx(outgoing, pr)
\* builds its graph, once compute_pagerank has returned pr
BuildGraph ==
    /\ pc = "returned"
    /\ G' = DiGraph(AddedEdges(outgoing))
    /\ pc' = "graph_built"
    /\ UNCHANGED <<outgoing, incoming, damping, max_iterations,
                   n, pages, A, is_dangling, teleport, fine_tol, x, x_prev,
                   iteration, diff, change_pct, hw_converged_at, broke, error,
                   pr, top5>>

\* stages 3 and 4 as main.py runs them, with the default damping factor
InitVerify == CalledWith(Inputs, {DefaultDamping}, {MaxIterCap})

NextVerify == Build \/ BuildRaises \/ Iterate \/ Exhaust \/ Return \/ BuildGraph

SpecVerify == InitVerify /\ [][NextVerify]_vars

-----------------------------------------------------------------------------
(* compute_pagerank as a function of its arguments *)

\* the first k values of v, computed once each
RECURSIVE Values(_, _)
Values(v, k) == IF k = 0 THEN <<>> ELSE Append(Values(v, k - 1), v[k - 1])

\* the ndarray an expression evaluates to: the vector v with its values
\* computed
Array(v) ==
    LET values == Values(v, Cardinality(DOMAIN v))
    IN  [i \in DOMAIN v |-> values[i + 1]]

\* the matrix M with its entries computed
Matrix(M) == Array([i \in DOMAIN M |-> Array(M[i])])

\* lines 154-176: the rank vector after the loop, started from v with
\* `left` passes to go
RECURSIVE PowerIteration(_, _, _, _, _, _, _, _)
PowerIteration(v, M, dang, d, k, tele, tol, left) ==
    IF left = 0 THEN v
    ELSE LET w == Array(NextIterate(v, M, dang, d, k, tele))
         IN  IF FineMet(L1Diff(w, v), tol) THEN w
             ELSE PowerIteration(w, M, dang, d, k, tele, tol, left - 1)

\* the dict compute_pagerank(out, incoming, d, cap) returns
Ranks(out, d, cap) ==
    LET k == Len(out)
        adj == Matrix(Adjacency(out))
    IN  ScoresByPage(SortedPages(out),
                     PowerIteration(Array(Uniform(k)), Matrix(Normalized(adj)),
                                    Dangling(adj), d, k, Array(Teleport(k, d)),
                                    FineTol(k), cap))

\* how the call compute_pagerank(out, incoming, d, cap) ends: with the
\* returned dict, or with the name of the exception raised (with cap = 0
\* no pass binds diff)
Outcome(out, d, cap) ==
    IF RaisesZeroDivision(Len(out)) THEN "ZeroDivisionError"
    ELSE IF cap = 0 THEN "NameError"
    ELSE Ranks(out, d, cap)

-----------------------------------------------------------------------------
(* Vocabulary of the properties *)

\* the rank vector exists: the call is in or past the loop
Ranked == pc \in {"loop", "after_loop", "returned"} \/ (pc = "raised" /\ error = "NameError")

\* the for loop has been left
LoopLeft == pc \in {"after_loop", "returned"} \/ (pc = "raised" /\ error = "NameError")

\* a pass of the loop body has just ended
PassDone == iteration >= 1 /\ (pc = "loop" \/ (pc = "after_loop" /\ broke))

\* the step is a pass of the loop body
IsPass == pc = "loop" /\ iteration' = iteration + 1

Indices == 0..(Len(outgoing) - 1)

\* the NodeIDs of S in ascending order, as a sequence
RECURSIVE Ascending(_)
Ascending(S) ==
    IF S = {} THEN <<>>
    ELSE LET least == CHOOSE p \in S : \A q \in S : int(p) <= int(q)
         IN  <<least>> \o Ascending(S \ {least})

\* the page with index i: the key of outgoing with exactly i smaller keys
NodeAt ==
    LET ascending == Ascending(KeySet(outgoing))
    IN  [i \in Indices |-> ascending[i + 1]]

\* the set of targets listed by page p
Listed(p) == LET t == TargetsOf(outgoing, p) IN {t[k] : k \in DOMAIN t}

\* the distinct known targets of the page with index i, as indices
Successors ==
    LET node == NodeAt
        listed == [i \in Indices |-> Listed(node[i])]
    IN  [i \in Indices |-> {j \in Indices : node[j] \in listed[i]}]

OutDegree == LET succ == Successors IN [i \in Indices |-> Cardinality(succ[i])]

DanglingSet == LET deg == OutDegree IN {i \in Indices : deg[i] = 0}

\* sum of v[i] over the finite set S
RECURSIVE SumOver(_, _)
SumOver(v, S) ==
    IF S = {} THEN Zero
    ELSE LET i == CHOOSE i \in S : TRUE IN FAdd(v[i], SumOver(v, S \ {i}))

\* sum of v[i] over the indices i < k that lie in S
RECURSIVE SumBelow(_, _, _)
SumBelow(v, S, k) ==
    IF k = 0 THEN Zero
    ELSE IF (k - 1) \in S THEN FAdd(SumBelow(v, S, k - 1), v[k - 1])
    ELSE SumBelow(v, S, k - 1)

\* sum of v[i] over the indices in S
SumIn(v, S) == SumBelow(v, S, Len(outgoing))

\* (1 - d) / N
Floor == FDiv(FSub(One, damping), FromInt(Len(outgoing)))

-----------------------------------------------------------------------------
(* C1 *)

\* C1: for a non-empty graph and d in (0,1) the rank vector sums to 1 in the
\* initial state, after every completed pass of the loop, and in the
\* returned dict.
C1_RankSumsToOne ==
    (ValidDamping(damping) /\ Ranked) =>
        /\ SumIn(x, Indices) = One
        /\ pc = "returned" => SumOver(pr, KeySet(outgoing)) = One

\* two passes completed on a graph whose ranks are not uniform, and returned
C1_Witness ==
    /\ pc = "returned" /\ ValidDamping(damping) /\ iteration = 2
    /\ \E i, j \in Indices : x[i] # x[j]

-----------------------------------------------------------------------------
(* C2 *)

\* C2: for d in (0,1), every component of the initial vector, of every
\* iterate and of the returned scores is at least (1 - d) / N.
C2_TeleportFloor ==
    (ValidDamping(damping) /\ Ranked) =>
        /\ \A i \in Indices : FLeq(Floor, x[i])
        /\ pc = "returned" => \A p \in KeySet(outgoing) : FLeq(Floor, pr[p])

\* a page without in-links in a graph without dangling pages sits exactly
\* on the floor after a pass
C2_Witness ==
    /\ pc = "returned" /\ ValidDamping(damping)
    /\ DanglingSet = {}
    /\ \E i \in Indices : x[i] = Floor /\ \A j \in Indices : i \notin Successors[j]

-----------------------------------------------------------------------------
(* C3 *)

\* C3: every pass computes, for every node j, dangling ones included,
\* x_new[j] = (1-d)/N + d * (sum over edges i->j of x[i]/OutDegree(i)
\*                            + dangling_mass/N),
\* where dangling_mass is the sum of the current x over the DanglingSet
\* (x_prev holds the x the pass started from).
C3_IterationFormula ==
    (Ranked /\ PassDone) =>
        LET succ == Successors
            deg == [i \in Indices |-> Cardinality(succ[i])]
            mass == SumIn(x_prev, {i \in Indices : deg[i] = 0})
            share == FDiv(mass, FromInt(Len(outgoing)))
            sent == [i \in Indices |-> FDiv(x_prev[i], FromInt(deg[i]))]
            inflow(j) == SumIn(sent, {i \in Indices : j \in succ[i]})
            floor == Floor
        IN  \A j \in Indices :
                x[j] = FAdd(floor, FMul(damping, FAdd(inflow(j), share)))

\* a second pass has run from a non-uniform iterate, with dangling and
\* non-dangling pages
C3_Witness ==
    /\ Ranked /\ iteration = 2
    /\ DanglingSet # {} /\ DanglingSet # Indices
    /\ \E i, j \in Indices : x_prev[i] # x_prev[j]

-----------------------------------------------------------------------------
(* C4 *)

\* N * 1e-6, written from the node count
FineThreshold == Float(Len(outgoing), 1000000)

\* C4: the loop stops at the first pass whose L1 difference is below
\* N * 1e-6: a pass with diff below the threshold is the last one, no pass
\* runs after the loop has been left, and the loop is never left before
\* max_iterations passes after a pass with diff >= N * 1e-6.
C4_StopsAtFirstFineDiff ==
    /\ [](/\ (pc = "loop" /\ iteration >= 1) => ~FLess(diff, FineThreshold)
          /\ (LoopLeft /\ broke) => FLess(diff, FineThreshold)
          /\ (LoopLeft /\ ~broke) => iteration = max_iterations)
    /\ [][/\ IsPass => diff' = SumIn([j \in Indices |-> FAbs(FSub(x'[j], x[j]))], Indices)
          /\ IsPass => (broke' <=> pc' = "after_loop")
          /\ LoopLeft => (x' = x /\ iteration' = iteration /\ pc' # "loop")]_vars

\* the loop went on after a first pass with diff >= N * 1e-6 and stopped at
\* its second pass on a difference that is below it and not zero
C4_Witness ==
    /\ pc = "returned" /\ broke /\ iteration = 2
    /\ diff # Zero

\* the loop stopped before the cap
C4_WitnessBeforeCap == pc = "returned" /\ broke /\ iteration < max_iterations

-----------------------------------------------------------------------------
(* C5 *)

\* C5: every pass evaluates relative_change < 0.005; the 1-based number of
\* the first pass at which it holds is recorded, a recorded number is never
\* overwritten, and the loop is only left early on the fine threshold.
C5_CoarseRecordedOnce ==
    [][IsPass =>
        LET coarse == FLess(FDiv(diff', SumIn(x, Indices)), Float(5, 1000))
        IN  /\ (hw_converged_at = None /\ coarse) => hw_converged_at' = iteration + 1
            /\ (hw_converged_at = None /\ ~coarse) => hw_converged_at' = None
            /\ hw_converged_at # None =>
                   (hw_converged_at' = hw_converged_at /\ hw_converged_at <= iteration)
            /\ pc' = "after_loop" => FLess(diff', FineThreshold)]_vars

\* the coarse threshold was first met at pass 2, or was met at pass 1 and
\* a second pass ran
C5_Witness ==
    /\ Ranked /\ iteration = 2
    /\ hw_converged_at = 1 /\ FLess(change_pct, Float(5, 1000))

\* the coarse threshold was missed at pass 1 and met at pass 2
C5_WitnessSecondPass == Ranked /\ hw_converged_at = 2

-----------------------------------------------------------------------------
(* C6 *)

\* C6: for every max_iterations >= 0, a call on a non-empty graph whose
\* loop ends without the fine threshold being met returns the last iterate,
\* summing to 1, and raises no error.
C6_ExhaustedStillReturns ==
    (LoopLeft /\ ~broke /\ pc # "after_loop") =>
        /\ pc = "returned"
        /\ pr = [p \in KeySet(outgoing) |-> x[CHOOSE i \in Indices : NodeAt[i] = p]]
        /\ SumIn(x, Indices) = One

-----------------------------------------------------------------------------
(* C7 *)

\* the iterate one more pass would produce from the returned one
OneMorePass == NextIterate(x, A, is_dangling, damping, n, teleport)

\* C7 as claimed: the returned value tells Converged from
\* MaxIterationsExhausted, so no exhausted run returns the value that a
\* converged run on the same graph and damping (one more pass allowed)
\* returns.
C7_ResultTellsConvergence ==
    (pc = "returned" /\ ~broke) =>
        ~(OneMorePass = x /\ FLess(L1Diff(OneMorePass, x), FineThreshold))

\* C7 as amended: the returned value is the dict of the last iterate's scores
\* and nothing else: its keys are the keys of outgoing, the score of the
\* page with index i is x[i], whether the loop was left through break or
\* through exhaustion.
C7_ResultIsScoresOnly ==
    pc = "returned" =>
        /\ DOMAIN pr = KeySet(outgoing)
        /\ \A i \in Indices : pr[NodeAt[i]] = x[i]

\* an exhausted run returned a non-uniform vector that one more pass leaves
\* unchanged: the run with a larger cap returns the same dict as Converged
C7_Witness ==
    /\ pc = "returned" /\ ~broke /\ OneMorePass = x
    /\ \E i, j \in Indices : x[i] # x[j]

-----------------------------------------------------------------------------
(* C8 *)

\* C8 as claimed: a damping factor outside (0,1) is rejected with
\* InvalidDamping before any pass runs and no rank vector is produced.
C8_InvalidDampingRejected ==
    ~ValidDamping(damping) =>
        /\ pc \in {"called", "raised"}
        /\ pc = "raised" => error = "InvalidDamping"
        /\ x = Unbound /\ pr = Unbound

\* C8 as amended: a damping factor outside (0,1) is not rejected.  The
\* call goes on as for any other d: the only errors are those every d
\* meets (ZeroDivisionError for the empty dict, NameError for
\* max_iterations = 0), a non-empty dict takes the call into the loop with
\* the uniform start vector, and what is returned is a dict of scores
\* summing to 1.
C8_InvalidDampingAccepted ==
    ~ValidDamping(damping) =>
        /\ pc = "raised" =>
              \/ Len(outgoing) = 0 /\ error = "ZeroDivisionError"
              \/ max_iterations = 0 /\ error = "NameError"
        /\ (Len(outgoing) >= 1 /\ pc # "called") =>
              (Ranked /\ SumIn(x, Indices) = One)
        /\ pc = "returned" => SumOver(pr, KeySet(outgoing)) = One

\* a rank vector with a negative score was returned for d = 1.5
C8_Witness ==
    /\ pc = "returned" /\ ~ValidDamping(damping)
    /\ \E p \in KeySet(outgoing) : FLess(pr[p], Zero)

-----------------------------------------------------------------------------
(* C9 *)

\* C9 as claimed: for the empty dict the call fails with EmptyGraph before
\* any pass runs and returns no ranking.
C9_EmptyGraphError ==
    Len(outgoing) = 0 =>
        /\ pc \in {"called", "raised"}
        /\ pc = "raised" => error = "EmptyGraph"
        /\ x = Unbound /\ iteration = Unbound /\ pr = Unbound

\* C9 as amended: for the empty dict the call fails with the uncaught
\* ZeroDivisionError of 1.0 / n, before any pass runs, and returns no
\* ranking.
C9_EmptyGraphZeroDivision ==
    Len(outgoing) = 0 =>
        /\ pc \in {"called", "raised"}
        /\ pc = "raised" => error = "ZeroDivisionError"
        /\ x = Unbound /\ iteration = Unbound /\ pr = Unbound

\* the call on the empty dict has failed
C9_Witness == Len(outgoing) = 0 /\ pc = "raised"

-----------------------------------------------------------------------------
(* C10 *)

\* C10: when every node has out-degree 0 the call raises no error, divides
\* by zero nowhere, and every iterate and the returned vector are uniform,
\* 1/N each.
C10_AllDanglingUniform ==
    (Len(outgoing) >= 1 /\ DanglingSet = Indices) =>
        /\ pc # "raised"
        /\ Ranked =>
              /\ \A i \in Indices : x[i] = Float(1, Len(outgoing))
              /\ \A i, j \in Indices : IsFinite(A[i][j])
        /\ pc = "returned" =>
              \A p \in KeySet(outgoing) : pr[p] = Float(1, Len(outgoing))

\* what holds of the all-dangling graphs: the same, with the NameError of
\* max_iterations = 0 as the one error
C10_AllDanglingUniformOrNameError ==
    (Len(outgoing) >= 1 /\ DanglingSet = Indices) =>
        /\ pc = "raised" => (max_iterations = 0 /\ error = "NameError")
        /\ Ranked =>
              /\ \A i \in Indices : x[i] = Float(1, Len(outgoing))
              /\ \A i, j \in Indices : IsFinite(A[i][j])
        /\ pc = "returned" =>
              \A p \in KeySet(outgoing) : pr[p] = Float(1, Len(outgoing))

-----------------------------------------------------------------------------
(* C11 *)

\* C11: the indices 0..N-1 are assigned to the distinct keys of the input
\* mapping one to one, in ascending order of the NodeIDs (a < b implies
\* index(a) < index(b)); the assignment is the one fixed by the set of keys
\* (NodeAt), whatever the order in which the mapping enumerates them.
C11_IndexOrder ==
    pc # "called" =>
        /\ DOMAIN pages = 0..(Len(outgoing) - 1)
        /\ {pages[i] : i \in DOMAIN pages} = KeySet(outgoing)
        /\ \A i, j \in DOMAIN pages : pages[i] = pages[j] => i = j
        /\ \A i, j \in DOMAIN pages : int(pages[i]) < int(pages[j]) => i < j
        /\ \A i \in DOMAIN pages : PageToIdx(pages)[pages[i]] = i
        /\ \A i \in DOMAIN pages : pages[i] = NodeAt[i]

\* three pages enumerated in the order "9", "10", "8" got the indices
\* 1, 2, 0
C11_Witness ==
    /\ pc = "loop" /\ Len(outgoing) = 3
    /\ outgoing[1][1] = str(9) /\ outgoing[2][1] = str(10)
    /\ pages[0] = str(8) /\ pages[1] = str(9) /\ pages[2] = str(10)

-----------------------------------------------------------------------------
(* C12 *)

\* C12: the built edge set holds (s,t) exactly when t occurs at least once
\* in the list of s and t is a key; each such pair has weight 1 however
\* often t is repeated; OutDegree(s) is the number of distinct known
\* targets of s; and the dangling set is exactly the set of indices with
\* OutDegree 0, pages whose targets are all unknown included.
C12_EdgeSet ==
    pc # "called" =>
        LET node == NodeAt
            adj == Adjacency(outgoing)
            weight == RowSums(adj)
        IN  /\ is_dangling \subseteq Indices
            /\ \A i \in Indices :
                  LET listed == Listed(node[i])
                      known == {j \in Indices : node[j] \in listed}
                  IN  /\ \A j \in known : adj[i][j] = One /\ A[i][j] # Zero
                      /\ \A j \in Indices \ known : adj[i][j] = Zero /\ A[i][j] = Zero
                      /\ weight[i] = FromInt(Cardinality(known))
                      /\ known = Successors[i]
                      /\ (i \in is_dangling) <=> (Cardinality(known) = 0)

\* one page lists the same known target twice, another page lists nothing
C12_Witness ==
    /\ pc = "loop" /\ Len(outgoing) >= 2
    /\ \E k \in 1..Len(outgoing) :
          /\ Len(outgoing[k][2]) = 2
          /\ outgoing[k][2][1] = outgoing[k][2][2]
          /\ outgoing[k][2][1] \in KeySet(outgoing)
    /\ is_dangling # {}

\* a page whose targets are all unknown is dangling
C12_WitnessUnknownTargets ==
    /\ pc = "loop"
    /\ \E k \in 1..Len(outgoing) :
          /\ Len(outgoing[k][2]) = 2
          /\ \A m \in 1..2 : outgoing[k][2][m] \notin KeySet(outgoing)
          /\ PageToIdx(pages)[outgoing[k][1]] \in is_dangling

-----------------------------------------------------------------------------
(* C13 *)

\* the list with the element at position m repeated once more, at the end
Repeated(list, m) == Append(list, list[m])

\* the inputs that repeat one link of outgoing once more
WithOneRepeat ==
    {[outgoing EXCEPT ![k][2] = Repeated(outgoing[k][2], m)] :
        <<k, m>> \in {km \in (1..Len(outgoing)) \X (1..MaxLinks) :
                          km[2] <= Len(outgoing[km[1]][2])}}

\* the call has ended
Ended == pc \in {"returned", "raised"}

\* how the call ended: the returned dict or the name of the exception
Result == IF pc = "returned" THEN pr ELSE error

\* C13: repeating a target in a source's list changes nothing: the call on
\* the input with one link repeated once more ends as the call on the input
\* itself does, with the identical returned rank vector (so by induction
\* any number of repetitions yields what the list without repetitions
\* yields).
C13_RepeatedLinkSameRanks ==
    Ended => \A other \in WithOneRepeat : Outcome(other, damping, max_iterations) = Result

\* a page listing two different known targets, so that a repetition of one
\* of them would shift the weights, has non-uniform returned ranks
C13_Witness ==
    /\ pc = "returned" /\ iteration = 2
    /\ \E k \in 1..Len(outgoing) :
          /\ Len(outgoing[k][2]) = 2
          /\ outgoing[k][2][1] # outgoing[k][2][2]
          /\ \A m \in 1..2 : outgoing[k][2][m] \in KeySet(outgoing)
    /\ \E p, q \in KeySet(outgoing) : pr[p] # pr[q]

-----------------------------------------------------------------------------
(* C14 *)

\* C14: in the normalised matrix every entry (i,j) of a non-dangling row i
\* is 1/OutDegree(i) if i->j is an edge and 0 otherwise, and the row sums to
\* exactly 1; every dangling row is all zero, and sums to exactly 0; no
\* entry is the inf or nan of a division by zero.
C14_NormalizedRows ==
    pc # "called" =>
        LET succ == Successors
        IN  \A i \in Indices :
                LET deg == Cardinality(succ[i])
                IN  /\ \A j \in Indices : IsFinite(A[i][j])
                    /\ deg > 0 =>
                          /\ \A j \in succ[i] : A[i][j] = Float(1, deg)
                          /\ \A j \in Indices \ succ[i] : A[i][j] = Zero
                          /\ SumIn(A[i], Indices) = One
                    /\ deg = 0 =>
                          /\ \A j \in Indices : A[i][j] = Zero
                          /\ SumIn(A[i], Indices) = Zero

\* a matrix with a dangling row and a row of two entries 1/2
C14_Witness ==
    /\ pc = "loop" /\ is_dangling # {}
    /\ \E i, j, k \in Indices : j # k /\ A[i][j] = Float(1, 2) /\ A[i][k] = Float(1, 2)

-----------------------------------------------------------------------------
(* C15 *)

\* the NodeIDs that occur in some list of outgoing
AllTargets == UNION {Listed(outgoing[k][1]) : k \in 1..Len(outgoing)}

\* C15: the returned mapping has exactly one entry per key of the input
\* mapping, none for a NodeID that occurs only as a link target, and the
\* score of the NodeID with index i is component i of the final iterate.
C15_ReturnedMapping ==
    pc = "returned" =>
        /\ DOMAIN pr = KeySet(outgoing)
        /\ Cardinality(DOMAIN pr) = Len(outgoing)
        /\ \A t \in AllTargets \ KeySet(outgoing) : t \notin DOMAIN pr
        /\ \A i \in Indices : pr[pages[i]] = x[i] /\ PageToIdx(pages)[pages[i]] = i
        /\ \A i \in Indices : pages[i] = NodeAt[i]

\* returned after two passes: non-uniform scores for a dict that lists a
\* page that is not a key
C15_Witness ==
    /\ pc = "returned" /\ iteration = 2
    /\ AllTargets \ KeySet(outgoing) # {}
    /\ \E i, j \in Indices : x[i] # x[j]

-----------------------------------------------------------------------------
(* C16 *)

\* C16: the ranked list built from the result holds the pages with their
\* scores in descending order of score, and pages of equal score in
\* ascending order of NodeID.
C16_RankedOrder ==
    pc = "returned" =>
        /\ Len(top5) = IF Len(outgoing) < 5 THEN Len(outgoing) ELSE 5
        /\ Cardinality({top5[k][1] : k \in 1..Len(top5)}) = Len(top5)
        /\ \A k \in 1..Len(top5) :
              top5[k][1] \in KeySet(outgoing) /\ top5[k][2] = pr[top5[k][1]]
        /\ \A p \in KeySet(outgoing) \ {top5[k][1] : k \in 1..Len(top5)} :
              FLeq(pr[p], top5[Len(top5)][2])
        /\ \A k, m \in 1..Len(top5) :
              k < m =>
                  /\ FLeq(top5[m][2], top5[k][2])
                  /\ top5[m][2] = top5[k][2] => int(top5[k][1]) < int(top5[m][1])

\* three pages read in the order "10", "8", "9": "10" and "8" are ranked
\* with equal scores, "8" first, and the third score differs
C16_Witness ==
    /\ pc = "returned" /\ Len(outgoing) = 3 /\ outgoing[1][1] = str(10)
    /\ \E k \in 1..2 :
          /\ top5[k][1] = str(8) /\ top5[k + 1][1] = str(10)
          /\ top5[k][2] = top5[k + 1][2]
    /\ \E k \in 1..3 : top5[k][2] # pr[str(8)]

-----------------------------------------------------------------------------
(* C17 *)

\* C17: for every non-empty graph and every d in (0,1) the loop always
\* ends, in at most max_iterations passes: the number of passes never
\* exceeds max_iterations, no pass starts at the cap, every step in the
\* loop either leaves it or uses up one more of the max_iterations values,
\* at the cap the step that leaves the loop can be taken, and the loop is
\* only ever left through the fine threshold (Converged) or at the cap
\* (MaxIterationsExhausted).
C17_Terminates ==
    /\ [](Ranked => iteration <= max_iterations)
    /\ [][IsPass => iteration < max_iterations]_vars
    /\ [][pc = "loop" => (pc' = "after_loop" \/ iteration' = iteration + 1)]_vars
    /\ []((pc = "loop" /\ iteration = max_iterations) => ENABLED Exhaust)
    /\ [](LoopLeft => (broke \/ iteration = max_iterations))

\* the loop was left at the cap after two passes that missed the fine
\* threshold
C17_Witness ==
    /\ pc = "after_loop" /\ ~broke
    /\ iteration = 2 /\ max_iterations = 2

-----------------------------------------------------------------------------
(* C18 *)

\* the graph is a single node without edges: one key whose list names no
\* known page
SingleNode == Len(outgoing) = 1 /\ Successors[0] = {}

\* C18: for a single node without edges the only iterate is [1.0], the first
\* pass of the loop meets the fine threshold, so the solver converges in
\* exactly 1 iteration whenever the cap allows a pass, and the returned
\* vector is [1.0].
C18_SingleNode ==
    SingleNode =>
        /\ Ranked => x = [i \in {0} |-> One]
        /\ (Ranked /\ iteration >= 1) =>
              (iteration = 1 /\ broke /\ pc # "loop" /\ FLess(diff, FineThreshold))
        /\ (LoopLeft /\ max_iterations >= 1) => (broke /\ iteration = 1)
        /\ pc = "returned" =>
              (pr = [p \in KeySet(outgoing) |-> One] /\ broke /\ iteration = 1)

\* a call on a page without links returned [1.0] after one pass, below
\* the cap
C18_Witness ==
    /\ pc = "returned"
    /\ Len(outgoing) = 1 /\ outgoing[1][2] = <<>>
    /\ pr = [p \in KeySet(outgoing) |-> One]
    /\ iteration = 1 /\ max_iterations = 2

\* the same for a page whose only link names an unknown page
C18_WitnessUnknownTarget ==
    /\ pc = "returned"
    /\ SingleNode /\ outgoing[1][2] # <<>>
    /\ pr = [p \in KeySet(outgoing) |-> One]
    /\ iteration = 1

-----------------------------------------------------------------------------
(* C19 *)

\* the graph is the two-node cycle: two pages, each with the other as its
\* one known target
TwoCycle == Len(outgoing) = 2 /\ Successors = [i \in {0, 1} |-> {1 - i}]

Half == Float(1, 2)

\* C19: for the two-node cycle and d = 0.85 every iterate is [0.5, 0.5],
\* so the first pass meets the fine threshold: the loop is left Converged
\* whenever the cap allows a pass, and the returned vector is [0.5, 0.5].
C19_TwoCycle ==
    (TwoCycle /\ damping = DefaultDamping) =>
        /\ Ranked => x = [i \in {0, 1} |-> Half]
        /\ (Ranked /\ iteration >= 1) =>
              (x_prev = [i \in {0, 1} |-> Half] /\ diff = Zero /\ broke)
        /\ (LoopLeft /\ max_iterations >= 1) => broke
        /\ pc = "returned" => (pr = [p \in KeySet(outgoing) |-> Half] /\ broke)

\* the call on {8: [9], 9: [8]} returned [0.5, 0.5] Converged
C19_Witness ==
    /\ pc = "returned" /\ broke
    /\ Len(outgoing) = 2
    /\ \A k \in 1..2 : outgoing[k][2] = <<outgoing[3 - k][1]>>
    /\ damping = DefaultDamping
    /\ pr = [p \in KeySet(outgoing) |-> Half]

-----------------------------------------------------------------------------
(* C20 *)

\* the page with index h is the hub of a star: it has no edge, and every
\* other page, of which there is at least one, has the one edge to it
IsHub(h) ==
    /\ Len(outgoing) >= 2
    /\ LET succ == Successors
       IN  \A i \in Indices : succ[i] = IF i = h THEN {} ELSE {h}

\* C20: for every star graph, after every completed pass and in the
\* returned vector the hub has strictly more rank than every leaf, and all
\* leaves have the same rank.
C20_StarHubAhead ==
    \A h \in Indices :
        IsHub(h) =>
            /\ (Ranked /\ iteration >= 1) =>
                  \A i, j \in Indices \ {h} : FLess(x[i], x[h]) /\ x[i] = x[j]
            /\ pc = "returned" =>
                  \A p, q \in KeySet(outgoing) \ {NodeAt[h]} :
                      FLess(pr[p], pr[NodeAt[h]]) /\ pr[p] = pr[q]

\* a star with three leaves whose hub is neither the first nor the last
\* page returned after two passes, the hub ahead of the leaves
C20_Witness ==
    /\ pc = "returned" /\ iteration = 2
    /\ Len(outgoing) = 4
    /\ IsHub(1)
    /\ \A i \in {0, 2, 3} : FLess(pr[NodeAt[i]], pr[NodeAt[1]])

-----------------------------------------------------------------------------
(* C21 *)

\* C21: dividing a rank vector that sums to 1 by its sum leaves every
\* component as it is.
C21_RenormalizeIdempotent ==
    []((Ranked /\ SumIn(x, Indices) = One) =>
          \A j \in Indices : L1Normalized(x)[j] = x[j])

\* a vector of three different components that sums to 1 has been
\* renormalised
C21_Witness ==
    /\ Ranked /\ iteration >= 1
    /\ Len(outgoing) = 3
    /\ SumIn(x, Indices) = One
    /\ x[0] # x[1] /\ x[1] # x[2] /\ x[0] # x[2]
    /\ L1Normalized(x)[2] = x[2]

-----------------------------------------------------------------------------
(* C22 *)

\* the graph is a cycle through the pages in index order in which r pages
\* link to the page with index 0 instead of their successor
IsRedirectedCycle(r) ==
    /\ Len(outgoing) >= 2
    /\ LET succ == Successors
           k == Len(outgoing)
       IN  /\ \A i \in Indices : succ[i] = {(i + 1) % k} \/ succ[i] = {0}
           /\ Cardinality({i \in Indices : succ[i] = {0} /\ (i + 1) % k # 0}) = r

\* RedirectedCycleDiff is the diff that the first pass of the loop computes
\* on such a cycle, whatever the number of pages
RedirectedCycleFirstPass ==
    \A r \in 0..MaxPages :
        (Ranked /\ iteration = 1 /\ IsRedirectedCycle(r)) =>
            diff = RedirectedCycleDiff(Len(outgoing), r, damping)

\* a first pass on a cycle with a redirected page
RedirectedCycleReached == Ranked /\ iteration = 1 /\ IsRedirectedCycle(1)

\* C22: whenever the loop is left on the fine threshold at pass k, the
\* coarse threshold has been met and recorded at some pass <= k, for every
\* number of pages: the call never ends Converged with no coarse pass
\* recorded.
C22_CoarseBeforeFine ==
    (pc = "after_loop" /\ broke) =>
        (hw_converged_at # None /\ hw_converged_at <= iteration)

-----------------------------------------------------------------------------
(* C23 *)

\* x_new of line 158, before line 162 divides it by its sum
Unnormalized == Damped(x, A, is_dangling, damping, n, teleport)

\* C23: for every iterate that sums to 1 and every d in (0,1), the x_new
\* of the next pass sums to 1 before it is renormalised, whatever the
\* number of dangling pages: the rank of the dangling pages is
\* redistributed, not lost, and the division of line 162 is a division by
\* 1 that leaves x_new as it is.
C23_DanglingMassConserved ==
    [][(IsPass /\ SumIn(x, Indices) = One) =>
          /\ SumIn(Unnormalized, Indices) = One
          /\ x' = Unnormalized]_vars

\* a second pass has run on a graph with a dangling page and a page that
\* is not dangling
C23_Witness ==
    /\ Ranked /\ iteration = 2
    /\ DanglingSet # {} /\ DanglingSet # Indices
    /\ SumIn(x_prev, Indices) = One

\* the same with two dangling pages
C23_WitnessTwoDangling ==
    /\ Ranked /\ iteration = 2
    /\ Cardinality(DanglingSet) = 2 /\ Len(outgoing) = 3

-----------------------------------------------------------------------------
(* C24 *)

\* C24: from the first pass on, the matrix, the dangling set, n, the
\* teleport vector and the fine threshold (the coarse one is the constant
\* hw_tol) stay as they were built, as do the index map and the arguments;
\* a pass changes only the rank vector, the copy of the previous iterate,
\* which is the vector the pass started from, the coarse record, and the
\* values recomputed by every pass: the loop index, diff and change_pct.
C24_OperatorImmutable ==
    [][Ranked =>
          /\ A' = A /\ is_dangling' = is_dangling /\ n' = n
          /\ teleport' = teleport /\ fine_tol' = fine_tol
          /\ pages' = pages
          /\ outgoing' = outgoing /\ damping' = damping
          /\ max_iterations' = max_iterations
          /\ IsPass => (x_prev' = x /\ error' = error /\ pr' = pr /\ top5' = top5)]_vars

\* two passes have changed the rank vector and the second one set the
\* coarse record
C24_Witness ==
    /\ Ranked /\ iteration = 2
    /\ x # x_prev /\ x_prev # Uniform(n)
    /\ hw_converged_at = 2
    /\ A = Normalized(Adjacency(outgoing))

-----------------------------------------------------------------------------
(* C25 *)

\* the one dict among all those that differ from out only in the order of
\* the sources or of the targets inside a list: sources ascending, every
\* list ascending (repetitions kept)
Canonical(out) ==
    LET ascending == sorted([k \in 1..Len(out) |-> out[k][1]])
    IN  [k \in 1..Len(out) |->
            <<ascending[k],
              sorted(out[CHOOSE m \in 1..Len(out) : out[m][1] = ascending[k]][2])>>]

\* C25: the outcome of the call does not depend on the order in which the
\* dict enumerates its sources nor on the order of the targets inside a
\* list: whatever the order, the call ends as the call on the dict with
\* sources and targets in ascending order does, with the same score for
\* every page.
C25_OrderIndependent ==
    Ended => Outcome(Canonical(outgoing), damping, max_iterations) = Result

\* ranks were returned for a dict whose sources are not in ascending order
\* and in which a source lists two different ids, the larger one first and
\* a known page among them; the ranks are not uniform
C25_Witness ==
    /\ pc = "returned"
    /\ Len(outgoing) = 2 /\ int(outgoing[1][1]) > int(outgoing[2][1])
    /\ \E k \in 1..2 :
          /\ Len(outgoing[k][2]) = 2
          /\ int(outgoing[k][2][1]) > int(outgoing[k][2][2])
          /\ \E m \in 1..2 : outgoing[k][2][m] \in KeySet(outgoing)
    /\ Canonical(outgoing) # outgoing
    /\ pr[outgoing[1][1]] # pr[outgoing[2][1]]

-----------------------------------------------------------------------------
(* C26 *)

\* C26: from the second pass on, the diff of a pass is at most damping
\* times the diff of the pass before it, and so never larger than it.
C26_Contraction ==
    [][(IsPass /\ iteration >= 1) =>
          /\ FLeq(diff', FMul(damping, diff))
          /\ FLeq(diff', diff)]_vars

\* after two passes that both moved the rank vector, the second one by
\* less than damping times the first
C26_Witness ==
    /\ Ranked /\ PassDone /\ iteration = 2
    /\ FLess(Zero, diff)
    /\ FLess(diff, FMul(damping, L1Diff(x_prev, Uniform(n))))

-----------------------------------------------------------------------------
(* C27 *)

\* C27: after every pass the previous iterate, whose sum is the
\* denominator of change_pct, sums to exactly 1, so change_pct equals diff;
\* and a pass records the coarse convergence exactly when no pass did
\* before and its diff is below 0.005.
C27_RelativeChangeIsDiff ==
    /\ []((Ranked /\ iteration >= 1) =>
            /\ SumIn(x_prev, Indices) = One
            /\ change_pct = diff)
    /\ [][IsPass =>
            hw_converged_at' =
                IF hw_converged_at = None /\ FLess(diff', Float(5, 1000))
                THEN iteration + 1 ELSE hw_converged_at]_vars

\* the second pass moved the rank vector by less than 0.005, which the
\* first one had not, and set the coarse record
C27_Witness ==
    /\ Ranked /\ iteration = 2 /\ hw_converged_at = 2
    /\ FLess(Zero, diff) /\ FLess(diff, Float(5, 1000))
    /\ ~FLess(L1Diff(x_prev, Uniform(n)), Float(5, 1000))
    /\ x_prev # Uniform(n)

-----------------------------------------------------------------------------
(* C28 *)

\* the page with index i lists itself
HasSelfLoop(i) == NodeAt[i] \in Listed(NodeAt[i])

\* C28: a link of a page to itself is an edge like any other: it is one of
\* the OutDegree edges of its row, with weight 1/OutDegree, and the row
\* sums to 1; a page with a self-loop is not dangling, and when the page
\* itself is its only known target, a pass keeps its rank on it (damped)
\* and leaves it out of the dangling mass.
C28_SelfLoopIsEdge ==
    Ranked =>
        \A i \in Indices : HasSelfLoop(i) =>
            LET succ == Successors
                deg == [j \in Indices |-> Cardinality(succ[j])]
                mass == SumIn(x_prev, {j \in Indices \ {i} : deg[j] = 0})
                share == FDiv(mass, FromInt(Len(outgoing)))
                sent == [j \in Indices |-> FDiv(x_prev[j], FromInt(deg[j]))]
                others == SumIn(sent, {j \in Indices \ {i} : i \in succ[j]})
            IN  /\ i \in succ[i] /\ deg[i] >= 1
                /\ A[i][i] = FDiv(One, FromInt(deg[i]))
                /\ SumIn(A[i], Indices) = One
                /\ i \notin is_dangling
                /\ (succ[i] = {i}) =>
                      /\ A[i] = [j \in Indices |-> IF j = i THEN One ELSE Zero]
                      /\ PassDone =>
                            x[i] = FAdd(Floor,
                                        FMul(damping,
                                             FAdd(FAdd(x_prev[i], others), share)))

\* two passes have run on a graph in which a page lists itself and an
\* unknown page only, next to a dangling page
C28_Witness ==
    /\ Ranked /\ iteration = 2
    /\ \E i \in Indices :
          /\ HasSelfLoop(i) /\ Successors[i] = {i}
          /\ Cardinality(Listed(NodeAt[i])) = 2
    /\ is_dangling # {}
    /\ \E i, j \in Indices : x_prev[i] # x_prev[j]

\* a pass has run on a graph in which a page lists itself and another
\* known page
C28_WitnessTwoEdges ==
    /\ Ranked /\ PassDone
    /\ \E i \in Indices : HasSelfLoop(i) /\ Cardinality(Successors[i]) = 2

-----------------------------------------------------------------------------
(* C29 *)

\* the pages whose reference score is the default of nx_pr.get(p, 0.0):
\* nx.pagerank(G) has a score for the nodes of G and for nothing else
ComparedWithFallback == {p \in DOMAIN pr : p \notin G.nodes}

\* C29: the reference graph has the pages of the custom ranking as its
\* nodes: every key of outgoing is a node of G, and no page is compared
\* with the 0.0 fallback.
C29_SameNodeSet ==
    pc = "graph_built" =>
        /\ G.nodes = KeySet(outgoing)
        /\ G.nodes = DOMAIN pr
        /\ ComparedWithFallback = {}

-----------------------------------------------------------------------------
(* C30 *)

\* C30: build_incoming returns a dict with the keys of outgoing; for all
\* known pages s and t, s occurs in incoming[t] as often as t occurs in
\* outgoing[s], and nothing else is in a list of incoming; outgoing is as
\* it was.
C30_IncomingMirrorsOutgoing ==
    /\ [](pc = "incoming_returned" =>
            /\ KeySet(incoming) = KeySet(outgoing)
            /\ Len(incoming) = Len(outgoing)
            /\ \A s, t \in KeySet(outgoing) :
                  Occurrences(TargetsOf(incoming, t), s)
                      = Occurrences(TargetsOf(outgoing, s), t)
            /\ \A t \in KeySet(incoming) :
                  \A m \in DOMAIN TargetsOf(incoming, t) :
                      TargetsOf(incoming, t)[m] \in KeySet(outgoing))
    /\ [][outgoing' = outgoing]_vars

\* incoming was built from a dict of three pages, not in ascending order,
\* in which a page lists another page twice
C30_Witness ==
    /\ pc = "incoming_returned"
    /\ Len(outgoing) = 3 /\ Canonical(outgoing) # outgoing
    /\ \E s, t \in KeySet(outgoing) :
          /\ s # t
          /\ Occurrences(TargetsOf(outgoing, s), t) = 2
          /\ TargetsOf(incoming, t) = <<s, s>>

\* incoming was built from a dict in which a page lists a known page and
\* an unknown id, and its list of sources is empty
C30_WitnessUnknownTarget ==
    /\ pc = "incoming_returned"
    /\ \E s \in KeySet(outgoing) :
          /\ \E u \in Listed(s) : u \notin KeySet(outgoing)
          /\ \E t \in Listed(s) : t \in KeySet(outgoing) /\ s \notin Listed(t)
          /\ TargetsOf(incoming, s) = <<>>

====
